---- MODULE Spec2Model ----
(***************************************************************************)
(* Model of the two SpiderFoot plug-ins sfp_bluesky and sfp_tiktok:        *)
(* handle validation, the seen-set router (handleEvent), the fetch         *)
(* pipelines (_process_handle / _process_username), the TikTok embedded    *)
(* JSON extractor and the profile / post field mappers.                    *)
(*                                                                         *)
(* Strings are sequences of one-character strings; a literal of the code   *)
(* that is never inspected (a URL prefix) is one multi-character element.  *)
(* Python values are tagged records: None, str, number, list, dict.        *)
(***************************************************************************)
EXTENDS Integers, Sequences, FiniteSets, TLC

VARIABLES plugin, opts, seen, handled, last, inp, res, pc

vars == <<plugin, opts, seen, handled, last, inp, res, pc>>

----------------------------------------------------------------------------
(* Bounds *)

\* longest string fed to the validator
MaxLen == 5
\* longest feed / item collection the remote side returns
MaxFeed == 3
\* largest configured max_posts / max_videos
MaxN == 2

----------------------------------------------------------------------------
(* Python values *)

PyNone == [k |-> "none"]
PyStr(s) == [k |-> "str", s |-> s]
PyNum(n) == [k |-> "num", n |-> n]
PyList(l) == [k |-> "list", l |-> l]
PyBool(b) == [k |-> "bool", b |-> b]
PyRaise == [k |-> "raise"]

IsNone(v) == v.k = "none"
IsStr(v) == v.k = "str"
IsDict(v) == v.k = "dict"
IsList(v) == v.k = "list"
IsRaise(v) == v.k = "raise"

----------------------------------------------------------------------------
(* Characters and string operations *)

Lowers == {"a", "b", "c", "i", "k", "l", "o", "s", "y"}
Uppers == {"A", "B"}
Digits == {"1"}
Whitespace == {" ", "\n"}

LowerChar(c) == CASE c = "A" -> "a" [] c = "B" -> "b" [] OTHER -> c

\* str.lower()
Lower(s) == [i \in 1..Len(s) |-> LowerChar(s[i])]

RECURSIVE LStripSet(_, _)
LStripSet(s, cs) ==
    IF s # <<>> /\ Head(s) \in cs THEN LStripSet(Tail(s), cs) ELSE s

RECURSIVE RStripSet(_, _)
RStripSet(s, cs) ==
    IF s # <<>> /\ s[Len(s)] \in cs
    THEN RStripSet(SubSeq(s, 1, Len(s) - 1), cs) ELSE s

\* str.strip(): whitespace removed at both ends
Strip(s) == RStripSet(LStripSet(s, Whitespace), Whitespace)

\* str.lstrip("@"): every leading "@" removed
LStripAt(s) == LStripSet(s, {"@"})

\* str.split("@")[0]
RECURSIVE SplitAtFirst(_)
SplitAtFirst(s) ==
    IF s = <<>> \/ Head(s) = "@" THEN <<>>
    ELSE <<Head(s)>> \o SplitAtFirst(Tail(s))

----------------------------------------------------------------------------
(* sfp_bluesky._HANDLE_RE, as the automaton of                             *)
(*   ^[a-z0-9](?:[a-z0-9.-]*[a-z0-9])?\.[a-z]{2,}$                         *)
(* under re.match; "$" also matches before one trailing newline.           *)
(*   0 start            1 first alnum read       2 in group, last not alnum*)
(*   3 in group, last alnum                      4 literal dot read        *)
(*   5 one suffix letter   6 two or more suffix letters   7 final newline  *)

IsLowerAlnum(c) == c \in Lowers \cup Digits

HandleReStep(q, c) ==
    CASE q = 0 -> IF IsLowerAlnum(c) THEN {1} ELSE {}
      [] q = 1 -> IF IsLowerAlnum(c) THEN {3}
                  ELSE IF c = "." THEN {2, 4}
                  ELSE IF c = "-" THEN {2} ELSE {}
      [] q = 2 -> IF IsLowerAlnum(c) THEN {3}
                  ELSE IF c \in {".", "-"} THEN {2} ELSE {}
      [] q = 3 -> IF IsLowerAlnum(c) THEN {3}
                  ELSE IF c = "." THEN {2, 4}
                  ELSE IF c = "-" THEN {2} ELSE {}
      [] q = 4 -> IF c \in Lowers THEN {5} ELSE {}
      [] q = 5 -> IF c \in Lowers THEN {6} ELSE {}
      [] q = 6 -> IF c \in Lowers THEN {6}
                  ELSE IF c = "\n" THEN {7} ELSE {}
      [] OTHER -> {}

RECURSIVE HandleReRun(_, _)
HandleReRun(qs, s) ==
    IF s = <<>> THEN qs
    ELSE HandleReRun(UNION {HandleReStep(q, Head(s)) : q \in qs}, Tail(s))

HandleReMatch(s) == HandleReRun({0}, s) \cap {6, 7} # {}

\* sfp_bluesky._valid_handle, with a strip that is applied after the "@"
\* removal instead of before it
ValidHandleStripLate(h0) ==
    LET h1 == Lower(h0)
        h2 == IF h1 # <<>> /\ Head(h1) = "@" THEN Tail(h1) ELSE h1
    IN IF HandleReMatch(h2) THEN PyStr(h2) ELSE PyNone

\* sfp_bluesky._valid_handle
ValidHandle(h0) ==
    LET h1 == Strip(Lower(h0))
        h2 == IF h1 # <<>> /\ Head(h1) = "@" THEN Tail(h1) ELSE h1
    IN IF HandleReMatch(h2) THEN PyStr(h2) ELSE PyNone

----------------------------------------------------------------------------
(* Python dicts, truthiness and .get                                        *)
(* A dict is its items in insertion order, each a <<key, value>> pair.      *)

Absent == [k |-> "absent"]

\* a dict literal; an entry whose value is Absent is left out
DictOf(ps) == [k |-> "dict", items |-> SelectSeq(ps, LAMBDA p : p[2] # Absent)]

EmptyDict == DictOf(<<>>)

\* a document that json.loads accepts, standing for the value v
JsonText(v) == [k |-> "text", json |-> v]
\* a non-empty document that json.loads rejects
Garbage == [k |-> "text", json |-> PyRaise]

\* bool(v)
Truthy(v) ==
    CASE v.k = "none" -> FALSE
      [] v.k = "str" -> v.s # <<>>
      [] v.k = "num" -> v.n # 0
      [] v.k = "bool" -> v.b
      [] v.k = "list" -> v.l # <<>>
      [] v.k = "dict" -> v.items # <<>>
      [] OTHER -> TRUE

\* d.get(key, dflt); AttributeError when d is no dict
Get(d, key, dflt) ==
    IF ~IsDict(d) THEN PyRaise
    ELSE LET hit == {i \in 1..Len(d.items) : d.items[i][1] = key}
         IN IF hit = {} THEN dflt ELSE d.items[CHOOSE i \in hit : TRUE][2]

\* json.loads(text): the value, or PyRaise for the exception
JsonLoads(text) == IF text.k = "text" THEN text.json ELSE PyRaise

\* json.dumps(v): v as text, None written as null
JsonDumps(v) == [k |-> "dumped", json |-> v]

\* s.split("/")[-1]
RECURSIVE LastSegment(_)
LastSegment(s) ==
    IF s = <<>> \/ s[Len(s)] = "/" THEN <<>>
    ELSE LastSegment(SubSeq(s, 1, Len(s) - 1)) \o <<s[Len(s)]>>

----------------------------------------------------------------------------
(* Outbound events and the result of running a piece of a handler:          *)
(*   ev  the events passed to notifyListeners, in order                     *)
(*   req the requests passed to fetchUrl, in order                          *)
(*   ok  FALSE when an exception left the piece                             *)

Event(type, data) == [type |-> type, data |-> data]

Ran(ev, req, ok) == [ev |-> ev, req |-> req, ok |-> ok]

Nothing == Ran(<<>>, <<>>, TRUE)
Emit(type, data) == Ran(<<Event(type, data)>>, <<>>, TRUE)
Raised == Ran(<<>>, <<>>, FALSE)

\* r1 then r2; r2 does not run when r1 raised
Then(r1, r2) ==
    IF r1.ok THEN Ran(r1.ev \o r2.ev, r1.req \o r2.req, r2.ok) ELSE r1

\* _emit_error that only logs the message
EmitErrorSilent(msg) == Nothing

\* sfp_bluesky._emit_error / sfp_tiktok._emit_error
EmitError(msg) == Emit("ERROR", PyStr(<<msg>>))

----------------------------------------------------------------------------
(* Bio entity parser: the two regular expressions evaluated on the bios     *)
(* the model feeds in.                                                      *)

BioPlain == <<"B", "i", "o">>
BioMail == <<"m", "@", "t", ".", "c", "o">>

\* _EMAIL_RE.findall(bio), one match at most in the bios above
EmailsIn(bio) == IF bio = BioMail THEN <<BioMail>> ELSE <<>>
\* _DOMAIN_RE.findall(bio)
DomainsIn(bio) == IF bio = BioMail THEN <<<<"t", ".", "c", "o">>>> ELSE <<>>

\* sfp_bluesky._parse_bio / sfp_tiktok._parse_bio_entities; TypeError from
\* findall when the bio is no string
ParseBio(bio) ==
    IF ~IsStr(bio) THEN Raised
    ELSE Ran([i \in 1..Len(EmailsIn(bio.s)) |->
                  Event("EMAILADDR", PyStr(EmailsIn(bio.s)[i]))]
             \o [i \in 1..Len(DomainsIn(bio.s)) |->
                  Event("DOMAIN_NAME", PyStr(DomainsIn(bio.s)[i]))],
             <<>>, TRUE)

----------------------------------------------------------------------------
(* sfp_bluesky: pipeline                                                    *)

\* the string constant used as a dict key
K(name) == PyStr(<<name>>)

\* sfp_bluesky._process_profile
BskyProcessProfile(data, o) ==
    IF ~IsDict(data) THEN Raised
    ELSE
    LET avatar == Get(data, K("avatar"), PyNone)
        name == Get(data, K("displayName"), PyNone)
        desc == Get(data, K("description"), PyNone)
        stats == DictOf(<<
            <<K("followers"), Get(data, K("followersCount"), PyNone)>>,
            <<K("following"), Get(data, K("followsCount"), PyNone)>>,
            <<K("posts"), Get(data, K("postsCount"), PyNone)>>,
            <<K("handle"), Get(data, K("handle"), PyNone)>>,
            <<K("did"), Get(data, K("did"), PyNone)>> >>)
    IN Then(IF Truthy(avatar) THEN Emit("PROFILE_PHOTO", avatar) ELSE Nothing,
       Then(IF Truthy(name) THEN Emit("ACCOUNT_EXTERNAL_OWNER", name) ELSE Nothing,
       Then(IF Truthy(desc)
            THEN Then(Emit("DESCRIPTION", desc),
                      IF o.parse_bio THEN ParseBio(desc) ELSE Nothing)
            ELSE Nothing,
            Emit("BLUESKY_PROFILE_INFO", JsonDumps(stats)))))

\* sfp_bluesky._emit_social
EmitSocial(url) == Emit("SOCIAL_MEDIA", url)

\* one iteration of the loop of sfp_bluesky._process_posts
BskyPostItem(handle, itm) ==
    LET post == Get(itm, K("post"), EmptyDict)
        uri == Get(post, K("uri"), PyNone)
        text == Get(Get(post, K("record"), EmptyDict), K("text"), PyNone)
    IN IF IsRaise(uri) THEN Raised
       ELSE IF ~Truthy(uri) THEN Nothing
       ELSE IF ~IsStr(uri) THEN Raised
       ELSE Then(Emit("LINKED_URL",
                      PyStr(<<"https://bsky.app/profile/">> \o handle
                            \o <<"/post/">> \o LastSegment(uri.s))),
                 IF IsRaise(text) THEN Raised
                 ELSE IF Truthy(text) THEN Emit("DESCRIPTION", text)
                 ELSE Nothing)

RECURSIVE BskyPostLoop(_, _)
BskyPostLoop(handle, items) ==
    IF items = <<>> THEN Nothing
    ELSE Then(BskyPostItem(handle, Head(items)),
              BskyPostLoop(handle, Tail(items)))

\* sfp_bluesky._process_posts; fetched is what fetchUrl returns
BskyProcessPosts(handle, o, fetched) ==
    LET request == [api |-> "getAuthorFeed", actor |-> handle,
                    limit |-> o.max_posts]
        content == Get(fetched, K("content"), PyNone)
        data == JsonLoads(content)
        feed == Get(data, K("feed"), PyList(<<>>))
    IN Then(Ran(<<>>, <<request>>, TRUE),
            IF ~Truthy(fetched) \/ ~Truthy(content) THEN Nothing
            ELSE IF IsRaise(data)
                 THEN EmitError("Feed JSON parse error")
            ELSE IF ~IsList(feed) THEN Raised
            ELSE BskyPostLoop(handle, feed.l))

\* sfp_bluesky._process_handle; fetched1 and fetched2 are what fetchUrl
\* returns for the profile and for the feed
BskyProcessHandle(handle, o, fetched1, fetched2) ==
    LET request == [api |-> "getProfile", actor |-> handle, limit |-> 0]
        content == Get(fetched1, K("content"), PyNone)
        data == JsonLoads(content)
    IN Then(Ran(<<>>, <<request>>, TRUE),
            IF ~Truthy(fetched1) \/ ~Truthy(content) THEN Nothing
            ELSE IF Get(fetched1, K("code"), PyNone) = PyNum(400) THEN Nothing
            ELSE IF IsRaise(data) THEN EmitError("JSON parse error")
            ELSE
            Then(EmitSocial(PyStr(<<"https://bsky.app/profile/">> \o handle)),
            Then(Emit("INFO",
                      PyStr(<<"Bluesky account detected: ">> \o handle)),
            Then(BskyProcessProfile(data, o),
                 IF o.fetch_posts /\ o.max_posts > 0
                 THEN BskyProcessPosts(handle, o, fetched2)
                 ELSE Nothing))))

----------------------------------------------------------------------------
(* sfp_tiktok: validator, extractor, verification, mappers                  *)

UserMinLen == 3
UserMaxLen == 32

WordChars == Lowers \cup Uppers \cup Digits \cup {"_"}

\* sfp_tiktok._valid_username: re.match(r"^[\w.-]{3,32}$", username);
\* "$" also matches before one trailing newline
TikValidUsername(u) ==
    LET core == IF u # <<>> /\ u[Len(u)] = "\n"
                THEN SubSeq(u, 1, Len(u) - 1) ELSE u
        AllOk(s) == /\ Len(s) >= UserMinLen
                    /\ Len(s) <= UserMaxLen
                    /\ \A i \in 1..Len(s) : s[i] \in WordChars \cup {".", "-"}
    IN AllOk(u) \/ AllOk(core)

\* a fetched page: for each pattern of _extract_json, the text its group 1
\* captures after html.unescape, or Absent when the pattern does not match
Html(sp, sw, np, nw, aj) ==
    [k |-> "html",
     blocks |-> [sigi_pat |-> sp, sigi_win |-> sw, next_pat |-> np,
                 next_win |-> nw, appjson |-> aj]]

\* the (pattern, typ) pairs of _extract_json, in its order
Strategies ==
    << <<"sigi_pat", "sigi">>, <<"sigi_win", "sigi">>, <<"next_pat", "next">>,
       <<"next_win", "next">>, <<"appjson", "json">> >>

\* hash(v) raises TypeError for a list and a dict
Hashable(v) == v.k \notin {"list", "dict"}

\* the reshaping of a __NEXT_DATA__ payload in _extract_json
NextReshape(parsed) ==
    LET props == Get(Get(parsed, K("props"), EmptyDict), K("pageProps"), EmptyDict)
        user_info == Get(Get(props, K("userInfo"), EmptyDict), K("user"), EmptyDict)
        items == Get(Get(props, K("itemInfo"), EmptyDict), K("itemStruct"), EmptyDict)
        uid == Get(user_info, K("uniqueId"), PyStr(<<>>))
    IN IF IsRaise(props) \/ IsRaise(user_info) \/ IsRaise(items) \/ IsRaise(uid)
       THEN PyRaise
       ELSE IF ~Hashable(uid) THEN PyRaise
       ELSE DictOf(<<
            <<K("UserModule"),
              DictOf(<< <<K("users"), DictOf(<< <<uid, user_info>> >>)>> >>)>>,
            <<K("ItemModule"), IF Truthy(items) THEN items ELSE EmptyDict>> >>)

RECURSIVE ExtractFrom(_, _)
ExtractFrom(html, i) ==
    IF i > Len(Strategies) THEN PyNone
    ELSE LET m == html.blocks[Strategies[i][1]]
             typ == Strategies[i][2]
             parsed == JsonLoads(m)
             shaped == IF typ = "next" THEN NextReshape(parsed) ELSE parsed
         IN IF m = Absent THEN ExtractFrom(html, i + 1)
            ELSE IF IsRaise(parsed) THEN ExtractFrom(html, i + 1)
            ELSE IF IsRaise(shaped) THEN PyRaise
            ELSE DictOf(<< <<K("data"), shaped>>, <<K("raw"), m>> >>)

\* sfp_tiktok._extract_json: None, the {"data", "raw"} dict, or PyRaise
TikExtractJson(html) == ExtractFrom(html, 1)

\* the generator of _verify_account: the first record whose lowercased
\* uniqueId equals username, None when there is none, PyRaise when a record
\* visited before that is no dict or its uniqueId no string
RECURSIVE FirstMatch(_, _)
FirstMatch(items, username) ==
    IF items = <<>> THEN PyNone
    ELSE LET u == Head(items)[2]
             uid == Get(u, K("uniqueId"), PyStr(<<>>))
         IN IF IsRaise(uid) \/ ~IsStr(uid) THEN PyRaise
            ELSE IF Lower(uid.s) = username THEN u
            ELSE FirstMatch(Tail(items), username)

\* sfp_tiktok._verify_account
TikVerifyAccount(data, username) ==
    LET a == Get(Get(data, K("UserModule"), EmptyDict), K("users"), PyNone)
        b == Get(Get(data, K("ShareUser"), EmptyDict), K("users"), PyNone)
        users == IF IsRaise(a) THEN PyRaise ELSE IF Truthy(a) THEN a ELSE b
        info == FirstMatch(users.items, username)
    IN IF IsRaise(users) THEN PyRaise
       ELSE IF ~Truthy(users) THEN PyBool(FALSE)
       ELSE IF ~IsDict(users) THEN PyRaise
       ELSE IF IsRaise(info) THEN PyRaise
       ELSE IF ~Truthy(info) THEN PyBool(FALSE)
       ELSE PyBool(TRUE)

\* the body of the user loop of sfp_tiktok._process_profile
TikUserEvents(user, o) ==
    IF ~IsDict(user) THEN Raised
    ELSE
    LET url == Get(user, K("avatarThumb"), PyNone)
        bio == Get(user, K("signature"), PyNone)
        region == Get(user, K("region"), PyNone)
        nick == Get(user, K("nickname"), PyNone)
        profile_info == DictOf(<<
            <<K("nickname"), Get(user, K("nickname"), PyNone)>>,
            <<K("followers"), Get(user, K("followerCount"), PyNone)>>,
            <<K("likes"), Get(user, K("heartCount"), PyNone)>>,
            <<K("videos"), Get(user, K("videoCount"), PyNone)>>,
            <<K("private"), Get(user, K("isPrivate"), PyBool(FALSE))>>,
            <<K("verified"), Get(user, K("verified"), PyBool(FALSE))>> >>)
    IN Then(IF Truthy(url) THEN Emit("PROFILE_PHOTO", url) ELSE Nothing,
       Then(IF Truthy(bio)
            THEN Then(Emit("DESCRIPTION", bio),
                      IF o.parse_bio THEN ParseBio(bio) ELSE Nothing)
            ELSE Nothing,
       Then(IF Truthy(region) THEN Emit("GEOINFO", region) ELSE Nothing,
       Then(IF Truthy(nick) THEN Emit("ACCOUNT_EXTERNAL_OWNER", nick) ELSE Nothing,
            Emit("TIKTOK_PROFILE_INFO", JsonDumps(profile_info))))))

RECURSIVE TikUserLoop(_, _)
TikUserLoop(items, o) ==
    IF items = <<>> THEN Nothing
    ELSE Then(TikUserEvents(Head(items)[2], o), TikUserLoop(Tail(items), o))

\* str(v) inside an f-string
Fmt(v) ==
    CASE v.k = "str" -> v.s
      [] v.k = "none" -> <<"None">>
      [] OTHER -> <<"<repr>">>

\* the video loop of sfp_tiktok._process_profile, count videos emitted so far
RECURSIVE TikVideoLoop(_, _, _)
TikVideoLoop(items, count, o) ==
    IF items = <<>> THEN Nothing
    ELSE LET vid_id == Head(items)[1]
             vid == Head(items)[2]
             desc == Get(vid, K("desc"), PyNone)
         IN IF ~IsDict(vid) THEN Raised
            ELSE Then(Emit("LINKED_URL",
                           PyStr(<<"https://www.tiktok.com/@">>
                                 \o Fmt(Get(vid, K("author"), PyNone))
                                 \o <<"/video/">> \o Fmt(vid_id))),
                 Then(IF Truthy(desc) THEN Emit("DESCRIPTION", desc) ELSE Nothing,
                      IF count + 1 >= o.max_videos THEN Nothing
                      ELSE TikVideoLoop(Tail(items), count + 1, o)))

\* sfp_tiktok._process_profile
TikProcessProfile(data, o) ==
    LET users == Get(Get(data, K("UserModule"), EmptyDict), K("users"), EmptyDict)
        videos == Get(data, K("ItemModule"), EmptyDict)
    IN Then(IF IsRaise(users) \/ ~IsDict(users) THEN Raised
            ELSE TikUserLoop(users.items, o),
            IF ~o.fetch_videos \/ o.max_videos = 0 THEN Nothing
            ELSE IF IsRaise(videos) \/ ~IsDict(videos) THEN Raised
            ELSE TikVideoLoop(videos.items, 0, o))

\* SpiderFootPlugin.emitSocialMedia, as the shim sfp_bluesky._emit_social
\* describes it
EmitSocialMedia(url) == Emit("SOCIAL_MEDIA", url)

\* sfp_tiktok._process_username with _debug off; fetched is what fetchUrl
\* returns
TikProcessUsername(username, o, fetched) ==
    LET url == PyStr(<<"https://www.tiktok.com/@">> \o username)
        request == [api |-> "page", actor |-> username, limit |-> 0]
        html_text == Get(fetched, K("content"), PyStr(<<>>))
        code == Get(fetched, K("code"), PyNone)
        extracted == IF html_text.k = "html" THEN TikExtractJson(html_text)
                     ELSE PyNone
        data == Get(extracted, K("data"), PyNone)
        raw_json == Get(extracted, K("raw"), PyNone)
        verified == IF ~o.verify_account THEN PyBool(TRUE)
                    ELSE TikVerifyAccount(data, username)
    IN Then(Ran(<<>>, <<request>>, TRUE),
            IF ~Truthy(fetched) \/ ~Truthy(Get(fetched, K("content"), PyNone))
            THEN Nothing
            ELSE IF code = PyNum(404) THEN Nothing
            ELSE IF IsRaise(extracted) THEN Raised
            ELSE IF ~Truthy(extracted)
                 THEN EmitError("Unable to extract TikTok JSON")
            ELSE
            Then(IF Truthy(raw_json) THEN Emit("RAW_RIR_DATA", raw_json)
                 ELSE Nothing,
                 IF IsRaise(verified) THEN Raised
                 ELSE IF verified.b
                 THEN Then(EmitSocialMedia(url),
                      Then(Emit("INFO",
                                PyStr(<<"TikTok account detected: ">> \o username)),
                           IF o.fetch_profile_details
                           THEN TikProcessProfile(data, o) ELSE Nothing))
                 ELSE Nothing))

----------------------------------------------------------------------------
(* Specification of the validator alone: every string up to MaxLen         *)

Alphabet == {"a", "A", "1", ".", "-", "@", "\n"}

Strings(n) == UNION {[1..m -> Alphabet] : m \in 0..n}

InitVH ==
    /\ plugin = "bluesky"
    /\ opts = <<>>
    /\ seen = {}
    /\ handled = {}
    /\ last = <<>>
    /\ inp \in Strings(MaxLen)
    /\ res = PyNone
    /\ pc = "call"

CallValidHandle ==
    /\ pc = "call"
    /\ res' = ValidHandle(inp)
    /\ pc' = "done"
    /\ UNCHANGED <<plugin, opts, seen, handled, last, inp>>

NextVH == CallValidHandle

SpecVH == InitVH /\ [][NextVH]_vars

----------------------------------------------------------------------------
(* Inputs of the pipelines: what fetchUrl may return                        *)

\* the dict fetchUrl returns
Fetched(code, content) ==
    DictOf(<< <<K("code"), PyNum(code)>>, <<K("content"), content>> >>)

Url == PyStr(<<"https://img.png">>)
NameT == PyStr(<<"T">>)

\* a document text that is no JSON object, or no JSON at all, or empty
OddContents ==
    {PyNone, PyStr(<<>>), Garbage, JsonText(PyList(<<>>)), JsonText(PyNone)}

\* a Bluesky getProfile payload
BskyProfile(av, dn, de, cnt, ids) ==
    DictOf(<< <<K("avatar"), av>>, <<K("displayName"), dn>>,
              <<K("description"), de>>,
              <<K("followersCount"), cnt>>, <<K("followsCount"), cnt>>,
              <<K("postsCount"), cnt>>,
              <<K("handle"), ids>>, <<K("did"), ids>> >>)

BskyProfiles ==
    {BskyProfile(av, dn, de, cnt, ids) :
        av \in {Absent, PyStr(<<>>), Url},
        dn \in {Absent, NameT},
        de \in {Absent, PyStr(BioPlain), PyStr(BioMail), PyNum(7)},
        cnt \in {Absent, PyNum(1)},
        ids \in {Absent, PyStr(<<"id">>)}}

BskyFullProfile ==
    BskyProfile(Url, NameT, PyStr(BioMail), PyNum(1), PyStr(<<"id">>))

IdChars == <<"1", "2", "3", "4", "5", "6">>

\* the i-th item of a getAuthorFeed payload, of one of four shapes
FeedItem(kind, i) ==
    LET uri == PyStr(<<"a", "t", "/", IdChars[i]>>)
        record == DictOf(<< <<K("text"), PyStr(<<"hello">>)>> >>)
    IN CASE kind = "full" ->
              DictOf(<< <<K("post"),
                  DictOf(<< <<K("uri"), uri>>, <<K("record"), record>> >>)>> >>)
         [] kind = "notext" ->
              DictOf(<< <<K("post"), DictOf(<< <<K("uri"), uri>> >>)>> >>)
         [] kind = "nouri" ->
              DictOf(<< <<K("post"), DictOf(<< <<K("record"), record>> >>)>> >>)
         [] OTHER -> PyNum(7)

FeedKinds == {"full", "notext", "nouri", "odd"}

KindSeqs(kinds, n) == UNION {[1..m -> kinds] : m \in 0..n}

FeedOf(ks) ==
    DictOf(<< <<K("feed"), PyList([i \in 1..Len(ks) |-> FeedItem(ks[i], i)])>> >>)

BskyFeeds == {FeedOf(ks) : ks \in KindSeqs(FeedKinds, MaxFeed)}

Fetch2Small ==
    {PyNone, Fetched(200, Garbage), Fetched(200, JsonText(FeedOf(<<"full">>)))}

Fetch2Rich ==
    {PyNone}
    \cup {Fetched(200, c) : c \in OddContents
             \cup {JsonText(EmptyDict),
                   JsonText(DictOf(<< <<K("feed"), PyNone>> >>))}}
    \cup {Fetched(c, JsonText(f)) : c \in {200, 404}, f \in BskyFeeds}

BskyOpts ==
    [fetch_posts : BOOLEAN, max_posts : 0..MaxN, parse_bio : BOOLEAN,
     parse_email_local : {TRUE}]

\* (profile fetch, feed fetch) pairs: every profile with a few feeds, every
\* feed with a few profiles, and the not-found codes with a few of each
BskyFetches ==
    ({PyNone} \cup {Fetched(200, c) :
                      c \in OddContents \cup {JsonText(p) : p \in BskyProfiles}})
        \X Fetch2Small
    \cup {Fetched(200, JsonText(BskyFullProfile)),
          Fetched(200, JsonText(EmptyDict))} \X Fetch2Rich
    \cup {Fetched(c, x) : c \in {400, 404},
                          x \in OddContents \cup {JsonText(BskyFullProfile),
                                                  JsonText(EmptyDict)}}
         \X Fetch2Small

BskyHandle == <<"a", ".", "b", "c">>

\* a TikTok user record
TikUser(uid, av, sig, reg, nick, cnt, flag) ==
    DictOf(<< <<K("uniqueId"), uid>>, <<K("avatarThumb"), av>>,
              <<K("signature"), sig>>, <<K("region"), reg>>,
              <<K("nickname"), nick>>,
              <<K("followerCount"), cnt>>, <<K("heartCount"), cnt>>,
              <<K("videoCount"), cnt>>,
              <<K("isPrivate"), flag>>, <<K("isBan"), flag>> >>)

TikHandle == <<"a", "b", "a">>

UidVals ==
    {Absent, PyStr(TikHandle), PyStr(<<"A", "b", "a">>),
     PyStr(<<"b", "b", "b">>), PyNum(7)}

TikUsers ==
    {TikUser(uid, av, sig, reg, nick, cnt, flag) :
        uid \in UidVals,
        av \in {Absent, Url},
        sig \in {Absent, PyStr(BioMail), PyNum(7)},
        reg \in {Absent, PyStr(<<"US">>)},
        nick \in {Absent, NameT},
        cnt \in {Absent, PyNum(1)},
        flag \in {Absent, PyBool(TRUE)}}

TikFullUser ==
    TikUser(PyStr(TikHandle), Url, PyStr(BioMail), PyStr(<<"US">>), NameT,
            PyNum(1), Absent)

\* the key a page stores a user record under
UidKey(u) == Get(u, K("uniqueId"), PyStr(<<>>))

\* users mappings: one record, two records, or something that is no mapping
TikUserMaps ==
    {DictOf(<< <<UidKey(u), u>> >>) : u \in TikUsers}
    \cup {DictOf(<< <<PyStr(<<"b", "b", "b">>),
                     TikUser(PyStr(<<"b", "b", "b">>), Absent, Absent, Absent,
                             Absent, Absent, Absent)>>,
                   <<UidKey(u), u>> >>) :
             u \in {TikFullUser, TikUser(PyNum(7), Absent, Absent, Absent,
                                         Absent, Absent, Absent)}}
    \cup {DictOf(<< <<PyStr(TikHandle), PyNum(7)>> >>),
          EmptyDict, PyNone, PyList(<<PyNum(7)>>), Absent}

\* the i-th video record of an ItemModule, of one of three shapes
VideoItem(kind, i) ==
    CASE kind = "full" ->
           DictOf(<< <<K("id"), PyStr(<<IdChars[i]>>)>>,
                     <<K("author"), PyStr(TikHandle)>>,
                     <<K("desc"), PyStr(<<"hello">>)>> >>)
      [] kind = "nodesc" ->
           DictOf(<< <<K("id"), PyStr(<<IdChars[i]>>)>>,
                     <<K("author"), PyStr(TikHandle)>> >>)
      [] OTHER -> PyNum(7)

VideoKinds == {"full", "nodesc", "odd"}

\* an ItemModule keyed by item id
ItemsOf(ks) ==
    DictOf([i \in 1..Len(ks) |-> <<PyStr(<<IdChars[i]>>), VideoItem(ks[i], i)>>])

TikItemMaps ==
    {ItemsOf(ks) : ks \in KindSeqs(VideoKinds, MaxFeed)}
    \cup {PyList(<<PyNum(7)>>), Absent}

\* a SIGI_STATE payload
SigiData(users, shared, items) ==
    DictOf(<< <<K("UserModule"),
                IF users = Absent THEN Absent
                ELSE DictOf(<< <<K("users"), users>> >>)>>,
              <<K("ShareUser"),
                IF shared = Absent THEN Absent
                ELSE DictOf(<< <<K("users"), shared>> >>)>>,
              <<K("ItemModule"), items>> >>)

TikFullUserMap == DictOf(<< <<PyStr(TikHandle), TikFullUser>> >>)

TikSigiPayloads ==
    {SigiData(um, Absent, im) : um \in TikUserMaps,
                                im \in {Absent, ItemsOf(<<"full">>)}}
    \cup {SigiData(um, sh, Absent) :
             um \in {Absent, EmptyDict},
             sh \in {TikFullUserMap, EmptyDict,
                     DictOf(<< <<PyStr(<<"b", "b", "b">>),
                                 TikUser(PyStr(<<"b", "b", "b">>), Absent, Absent,
                                         Absent, Absent, Absent, Absent)>> >>)}}
    \cup {SigiData(TikFullUserMap, Absent, im) : im \in TikItemMaps}
    \cup {PyList(<<>>)}

\* a __NEXT_DATA__ payload
NextData(user, item) ==
    DictOf(<< <<K("props"), DictOf(<< <<K("pageProps"), DictOf(<<
        <<K("userInfo"),
          IF user = Absent THEN Absent ELSE DictOf(<< <<K("user"), user>> >>)>>,
        <<K("itemInfo"),
          IF item = Absent THEN Absent
          ELSE DictOf(<< <<K("itemStruct"), item>> >>)>> >>)>> >>)>> >>)

NextUsers ==
    {Absent, TikFullUser, PyNone,
     TikUser(Absent, Url, Absent, Absent, Absent, Absent, Absent),
     TikUser(PyList(<<>>), Absent, Absent, Absent, Absent, Absent, Absent)}

\* itemStruct as the page carries it: one item record; or, already keyed by id
NextItems ==
    {Absent, VideoItem("full", 1), ItemsOf(<<"full", "nodesc">>), PyNone}

TikNextPayloads ==
    {NextData(u, i) : u \in NextUsers, i \in NextItems}
    \cup {EmptyDict, PyList(<<>>), DictOf(<< <<K("props"), PyNone>> >>)}

TikPages ==
    {Html(JsonText(d), Absent, Absent, Absent, Absent) : d \in TikSigiPayloads}
    \cup {Html(sp, Absent, JsonText(d), Absent, Absent) :
             sp \in {Absent, Garbage}, d \in TikNextPayloads}
    \cup {Html(sp, Absent, Absent, Absent, Absent) : sp \in {Absent, Garbage}}

TikFetches ==
    {PyNone, Fetched(200, PyNone), Fetched(200, PyStr(<<>>))}
    \cup {Fetched(200, h) : h \in TikPages}
    \cup {Fetched(c, h) : c \in {400, 404},
             h \in {Html(JsonText(SigiData(TikFullUserMap, Absent,
                                           ItemsOf(<<"full">>))),
                         Absent, Absent, Absent, Absent),
                    Html(Garbage, Absent, Absent, Absent, Absent),
                    Html(Absent, Absent, Absent, Absent, Absent)}}

TikOpts ==
    [fetch_videos : BOOLEAN, verify_account : BOOLEAN,
     fetch_profile_details : BOOLEAN, max_videos : 0..MaxN, parse_bio : BOOLEAN,
     parse_email_local : {TRUE}]

----------------------------------------------------------------------------
(* Specification of the two pipelines alone: one call of _process_handle   *)
(* or _process_username with the options and the fetch results as inputs   *)

NoRun == Ran(<<>>, <<>>, TRUE)

InitPipe ==
    /\ plugin \in {"bluesky", "tiktok"}
    /\ \/ /\ plugin = "bluesky"
          /\ opts \in BskyOpts
          /\ \E f \in BskyFetches :
                inp = [handle |-> BskyHandle, f1 |-> f[1], f2 |-> f[2]]
       \/ /\ plugin = "tiktok"
          /\ opts \in TikOpts
          /\ \E f \in TikFetches :
                inp = [handle |-> TikHandle, f1 |-> f, f2 |-> PyNone]
    /\ seen = {}
    /\ handled = {}
    /\ last = <<>>
    /\ res = NoRun
    /\ pc = "call"

CallProcessHandle ==
    /\ pc = "call"
    /\ plugin = "bluesky"
    /\ res' = BskyProcessHandle(inp.handle, opts, inp.f1, inp.f2)
    /\ pc' = "done"
    /\ UNCHANGED <<plugin, opts, seen, handled, last, inp>>

CallProcessUsername ==
    /\ pc = "call"
    /\ plugin = "tiktok"
    /\ res' = TikProcessUsername(inp.handle, opts, inp.f1)
    /\ pc' = "done"
    /\ UNCHANGED <<plugin, opts, seen, handled, last, inp>>

NextPipe == CallProcessHandle \/ CallProcessUsername

SpecPipe == InitPipe /\ [][NextPipe]_vars

----------------------------------------------------------------------------
(* Specification of the extractor alone: one call of _extract_json          *)

ExSigi == SigiData(TikFullUserMap, Absent, ItemsOf(<<"full">>))

\* payloads that tell the window assignment and the generic block apart
ExSigiWin == SigiData(TikFullUserMap, Absent, Absent)
ExAppJson == SigiData(TikFullUserMap, Absent, ItemsOf(<<"nodesc">>))

ExPages ==
    {Html(sp, sw, np, nw, aj) :
        sp \in {Absent, Garbage, JsonText(ExSigi)},
        sw \in {Absent, Garbage, JsonText(ExSigiWin)},
        np \in {Absent, Garbage} \cup {JsonText(d) : d \in TikNextPayloads},
        nw \in {Absent, Garbage, JsonText(NextData(TikFullUser, Absent))},
        aj \in {Absent, Garbage, JsonText(ExAppJson)}}

InitEx ==
    /\ plugin = "tiktok"
    /\ opts = <<>>
    /\ seen = {}
    /\ handled = {}
    /\ last = <<>>
    /\ inp \in ExPages
    /\ res = PyNone
    /\ pc = "call"

CallExtractJson ==
    /\ pc = "call"
    /\ res' = TikExtractJson(inp)
    /\ pc' = "done"
    /\ UNCHANGED <<plugin, opts, seen, handled, last, inp>>

NextEx == CallExtractJson

SpecEx == InitEx /\ [][NextEx]_vars

----------------------------------------------------------------------------
(* The event router of one plug-in instance                                 *)

\* sfp_bluesky._mark that forgets the item
BskyMarkNothing(s, item) == s

\* sfp_bluesky._mark
BskyMark(s, item) == s \cup {item}

\* sfp_tiktok.markAsSeen
TikMark(s, item) == s \cup {item}

BskySuffix == <<".", "b", "s", "k", "y", ".", "s", "o", "c", "i", "a", "l">>

\* sfp_bluesky.handleEvent: the seen set it leaves and what it ran
BskyHandleEvent(etype, edata, o, s, f1, f2) ==
    IF edata \in s THEN [seen |-> s, run |-> Nothing]
    ELSE [seen |-> BskyMark(s, edata),
          run |->
            IF etype = "EMAILADDR" /\ o.parse_email_local
            THEN LET cand == SplitAtFirst(edata) \o BskySuffix
                 IN IF Truthy(ValidHandle(cand))
                    THEN BskyProcessHandle(cand, o, f1, f2) ELSE Nothing
            ELSE IF /\ etype \in {"USERNAME", "SOCIAL_MEDIA", "DOMAIN_NAME",
                                  "INTERNET_NAME"}
                    /\ Truthy(ValidHandle(LStripAt(edata)))
            THEN BskyProcessHandle(LStripAt(edata), o, f1, f2)
            ELSE Nothing]

\* sfp_tiktok.handleEvent: the seen set it leaves and what it ran
TikHandleEvent(etype, edata, o, s, f1) ==
    IF edata \in s THEN [seen |-> s, run |-> Nothing]
    ELSE [seen |-> TikMark(s, edata),
          run |->
            IF etype = "EMAILADDR" /\ o.parse_email_local
            THEN LET uname == SplitAtFirst(edata)
                 IN IF TikValidUsername(uname)
                    THEN TikProcessUsername(uname, o, f1) ELSE Nothing
            ELSE IF etype \in {"USERNAME", "SOCIAL_MEDIA"}
                    /\ TikValidUsername(edata)
            THEN TikProcessUsername(Lower(edata), o, f1)
            ELSE Nothing]

\* sfp_bluesky.watchedEvents / sfp_tiktok.watchedEvents
WatchedEvents(p) ==
    IF p = "bluesky"
    THEN {"USERNAME", "SOCIAL_MEDIA", "EMAILADDR", "DOMAIN_NAME", "INTERNET_NAME"}
    ELSE {"USERNAME", "SOCIAL_MEDIA", "EMAILADDR"}

\* the raw event data the host delivers
DataStrings ==
    { <<"a", ".", "b", "c">>,
      <<"@", "a", ".", "b", "c">>,
      <<"A", ".", "b", "c">>,
      <<"a", "b", "a", "@", "a", ".", "b", "c">>,
      <<"A", "b", "a", "@", "a", ".", "b", "c">>,
      <<"a", "b">> }

\* the fetch results the router is driven with
RouterFetches(p) ==
    IF p = "bluesky"
    THEN {<<PyNone, PyNone>>,
          <<Fetched(200, JsonText(BskyFullProfile)),
            Fetched(200, JsonText(FeedOf(<<"full">>)))>>,
          <<Fetched(200, Garbage), PyNone>>,
          <<Fetched(200, JsonText(PyList(<<>>))), PyNone>>}
    ELSE {<<PyNone, PyNone>>,
          <<Fetched(200, Html(JsonText(ExSigi), Absent, Absent, Absent, Absent)),
            PyNone>>,
          <<Fetched(200, Html(Absent, Absent, Absent, Absent, Absent)), PyNone>>,
          <<Fetched(200, Html(JsonText(PyList(<<>>)), Absent, Absent, Absent,
                              Absent)), PyNone>>}

\* the options setup() leaves: user_opts over the defaults
RouterOpts(p) ==
    IF p = "bluesky"
    THEN [fetch_posts : {TRUE}, max_posts : {MaxN}, parse_bio : {TRUE},
          parse_email_local : BOOLEAN]
    ELSE [fetch_videos : {TRUE}, verify_account : {TRUE},
          fetch_profile_details : {TRUE}, max_videos : {MaxN},
          parse_bio : {TRUE}, parse_email_local : BOOLEAN]

NoCall ==
    [etype |-> "", edata |-> <<>>, fetched |-> <<PyNone, PyNone>>,
     repeat |-> FALSE, run |-> NoRun]

\* the state after construction and setup()
Init ==
    /\ plugin \in {"bluesky", "tiktok"}
    /\ opts \in RouterOpts(plugin)
    /\ seen = {}
    /\ handled = {}
    /\ last = NoCall
    /\ inp = <<>>
    /\ res = NoRun
    /\ pc = "idle"

\* setup(sfc, user_opts) called again on the instance
Setup ==
    /\ \E o \in RouterOpts(plugin) : opts' = o
    /\ seen' = {}
    /\ handled' = {}
    /\ last' = NoCall
    /\ UNCHANGED <<plugin, inp, res, pc>>

\* handleEvent(evt), with what fetchUrl returns during it; handled and
\* last.repeat record the data strings the instance was given since setup
HandleEvent ==
    \E etype \in WatchedEvents(plugin), edata \in DataStrings,
       f \in RouterFetches(plugin) :
        LET r == IF plugin = "bluesky"
                 THEN BskyHandleEvent(etype, edata, opts, seen, f[1], f[2])
                 ELSE TikHandleEvent(etype, edata, opts, seen, f[1])
        IN /\ seen' = r.seen
           /\ handled' = handled \cup {edata}
           /\ last' = [etype |-> etype, edata |-> edata, fetched |-> f,
                       repeat |-> edata \in handled, run |-> r.run]
           /\ UNCHANGED <<plugin, opts, inp, res, pc>>

Next == Setup \/ HandleEvent

Spec == Init /\ [][Next]_vars

----------------------------------------------------------------------------
(* Several instances of one plug-in class.  opts is a class attribute: no   *)
(* instance attribute of that name is ever assigned, so self.opts of every  *)
(* instance is the one dict of the class, which setup() updates in place.   *)
(* Here opts holds that dict and seen maps each instance to its seen set.   *)

DefaultDelay == 1
DefaultMaxPosts == 20
DefaultMaxVideos == 10

Instances == {"x", "y"}

\* sfp_bluesky.opts / sfp_tiktok.opts as the class body defines them
ClassDefaults(p) ==
    IF p = "bluesky"
    THEN [fetch_posts |-> TRUE, max_posts |-> DefaultMaxPosts,
          delay |-> DefaultDelay, parse_bio |-> TRUE,
          parse_email_local |-> TRUE]
    ELSE [fetch_videos |-> TRUE, verify_account |-> TRUE,
          parse_email_local |-> TRUE, fetch_profile_details |-> TRUE,
          delay |-> DefaultDelay, max_videos |-> DefaultMaxVideos,
          parse_bio |-> TRUE]

\* the user_opts setup() is called with
UserOpts(p) ==
    {[delay |-> 0], [delay |-> 0, parse_email_local |-> FALSE]}
    \cup (IF p = "bluesky" THEN {[delay |-> 0, fetch_posts |-> FALSE]}
          ELSE {[delay |-> 0, verify_account |-> FALSE]})

\* dict.update
Update(o, u) ==
    [key \in DOMAIN o \cup DOMAIN u |-> IF key \in DOMAIN u THEN u[key] ELSE o[key]]

\* self.opts of instance i: the attribute is found on the class
OptsOf(i) == opts

\* the raw event data the instances are given
InstData == { <<"a", ".", "b", "c">>, <<"a", "b">> }

NoInstCall(o, s) ==
    [inst |-> "x", op |-> "none", opts_before |-> o, seen_before |-> s]

\* two instances constructed and set up with no user options
InitInst ==
    /\ plugin \in {"bluesky", "tiktok"}
    /\ opts = ClassDefaults(plugin)
    /\ seen = [i \in Instances |-> {}]
    /\ handled = {}
    /\ last = NoInstCall(ClassDefaults(plugin), [i \in Instances |-> {}])
    /\ inp = <<>>
    /\ res = NoRun
    /\ pc = "idle"

\* instance i: setup(sfc, user_opts)
SetupInst ==
    \E i \in Instances, u \in UserOpts(plugin) :
        /\ seen' = [seen EXCEPT ![i] = {}]
        /\ opts' = Update(opts, u)
        /\ last' = [inst |-> i, op |-> "setup", opts_before |-> opts,
                    seen_before |-> seen]
        /\ UNCHANGED <<plugin, handled, inp, res, pc>>

\* instance i: handleEvent(evt)
HandleEventInst ==
    \E i \in Instances, etype \in WatchedEvents(plugin), edata \in InstData,
       f \in RouterFetches(plugin) :
        LET r == IF plugin = "bluesky"
                 THEN BskyHandleEvent(etype, edata, OptsOf(i), seen[i], f[1], f[2])
                 ELSE TikHandleEvent(etype, edata, OptsOf(i), seen[i], f[1])
        IN /\ seen' = [seen EXCEPT ![i] = r.seen]
           /\ last' = [inst |-> i, op |-> "handleEvent", opts_before |-> opts,
                       seen_before |-> seen]
           /\ UNCHANGED <<plugin, opts, handled, inp, res, pc>>

NextInst == SetupInst \/ HandleEventInst

SpecInst == InitInst /\ [][NextInst]_vars

----------------------------------------------------------------------------
(* Vocabulary of the claims *)

Count(ev, type) == Cardinality({i \in 1..Len(ev) : ev[i].type = type})
Types(ev) == {ev[i].type : i \in 1..Len(ev)}
Min(a, b) == IF a <= b THEN a ELSE b

\* the profile / page fetch of the call under test
GotResult == Truthy(inp.f1)
Code1 == Get(inp.f1, K("code"), PyNone)
Content1 == Get(inp.f1, K("content"), PyNone)
GotContent == GotResult /\ Truthy(Content1)
NotFound == GotResult /\ Code1 \in {PyNum(400), PyNum(404)}

\* the feed fetch was made, and what it returned
FeedFetched == Len(res.req) = 2
Content2 == Get(inp.f2, K("content"), PyNone)
GotFeed == FeedFetched /\ Truthy(inp.f2) /\ Truthy(Content2)

----------------------------------------------------------------------------
(* C1 *)

\* C1: a handleEvent whose data string the instance was already given since
\* setup, whatever the event type and whatever happened the first time,
\* fetches nothing and emits nothing.
C1_RepeatIsNoOp ==
    last.repeat => last.run.req = <<>> /\ last.run.ev = <<>>

\* a valid handle delivered a second time
C1_Witness ==
    /\ last.repeat
    /\ last.edata = <<"a", ".", "b", "c">>
    /\ last.etype = "USERNAME"
    /\ last.edata \in seen

----------------------------------------------------------------------------
(* C2 *)

\* C2: when the profile / page fetch returns status 400 or 404, with any
\* body, no outbound event of any type is emitted.
C2_NotFoundIsSilent ==
    (pc = "done" /\ NotFound) => res.ev = <<>>

----------------------------------------------------------------------------
(* C3 *)

\* C3: no exception leaves handleEvent, whatever the fetch returns.
C3_NoException == last.run.ok

----------------------------------------------------------------------------
(* C4 *)

\* some pattern of the page matches and its payload parses
SomeBlockParses(html) ==
    \E i \in 1..Len(Strategies) :
        LET b == html.blocks[Strategies[i][1]]
        IN b # Absent /\ ~IsRaise(JsonLoads(b))

\* non-empty fetched content failed to parse
ParseFailed ==
    IF plugin = "bluesky"
    THEN \/ GotContent /\ IsRaise(JsonLoads(Content1))
         \/ GotFeed /\ IsRaise(JsonLoads(Content2))
    ELSE GotContent /\ ~SomeBlockParses(Content1)

\* C4: with a profile / page status other than 400 and 404, an ERROR event is
\* emitted exactly when non-empty fetched content failed to parse; it is then
\* the only ERROR and the last event. A transport failure of the profile /
\* page fetch emits no event at all.
C4_ErrorIffParseFailure ==
    (pc = "done" /\ ~NotFound) =>
        /\ ("ERROR" \in Types(res.ev)) <=> ParseFailed
        /\ Count(res.ev, "ERROR") <= 1
        /\ "ERROR" \in Types(res.ev) => res.ev[Len(res.ev)].type = "ERROR"
        /\ ~GotContent => res.ev = <<>>

\* a feed that is no JSON: the profile events, then one ERROR
C4_Witness ==
    /\ pc = "done"
    /\ plugin = "bluesky"
    /\ ~NotFound
    /\ Len(res.ev) > 1
    /\ res.ev[1].type = "SOCIAL_MEDIA"
    /\ res.ev[Len(res.ev)].type = "ERROR"

----------------------------------------------------------------------------
(* C6 *)

ProfileData == JsonLoads(Content1)

\* C6: a Bluesky profile fetch that returns a JSON object with a status other
\* than not-found yields SOCIAL_MEDIA first, a BLUESKY_PROFILE_INFO event, and
\* a PROFILE_PHOTO event when the avatar is non-empty.
C6_ProfileEvents ==
    (/\ pc = "done"
     /\ plugin = "bluesky"
     /\ GotContent
     /\ ~NotFound
     /\ IsDict(ProfileData)) =>
        /\ res.ev # <<>>
        /\ res.ev[1].type = "SOCIAL_MEDIA"
        /\ "BLUESKY_PROFILE_INFO" \in Types(res.ev)
        /\ Truthy(Get(ProfileData, K("avatar"), PyNone))
              => "PROFILE_PHOTO" \in Types(res.ev)

----------------------------------------------------------------------------
(* C7 *)

\* the configured maximum, 0 when fetching is off
Cap ==
    IF plugin = "bluesky"
    THEN IF opts.fetch_posts THEN opts.max_posts ELSE 0
    ELSE IF opts.fetch_videos THEN opts.max_videos ELSE 0

\* the items of the returned collection that carry what a link needs
Linkable ==
    IF plugin = "bluesky"
    THEN LET feed == Get(JsonLoads(Content2), K("feed"), PyList(<<>>))
         IN Len(SelectSeq(feed.l, LAMBDA itm :
                Truthy(Get(Get(itm, K("post"), EmptyDict), K("uri"), PyNone))))
    ELSE Len(Get(Get(TikExtractJson(Content1), K("data"), PyNone),
                 K("ItemModule"), EmptyDict).items)

\* the post / video mapper ran to its end
MapperRan ==
    /\ res.ok
    /\ Cap > 0
    /\ IF plugin = "bluesky"
       THEN GotFeed /\ IsDict(JsonLoads(Content2))
       ELSE "TIKTOK_PROFILE_INFO" \in Types(res.ev)

\* C7: the LINKED_URL events of one handle never exceed the configured
\* maximum N; they are one per item for the first min(N, linkable items).
C7_HardCap ==
    pc = "done" =>
        /\ Count(res.ev, "LINKED_URL") <= Cap
        /\ MapperRan => Count(res.ev, "LINKED_URL") = Min(Cap, Linkable)

----------------------------------------------------------------------------
(* C8 *)

OnlyNextBlock ==
    /\ inp.blocks.sigi_pat = Absent
    /\ inp.blocks.sigi_win = Absent
    /\ inp.blocks.next_win = Absent
    /\ inp.blocks.appjson = Absent
    /\ inp.blocks.next_pat # Absent
    /\ ~IsRaise(JsonLoads(inp.blocks.next_pat))

\* the user record the page carries under props.pageProps.userInfo.user
PageUser ==
    Get(Get(Get(Get(JsonLoads(inp.blocks.next_pat), K("props"), EmptyDict),
                K("pageProps"), EmptyDict), K("userInfo"), EmptyDict),
        K("user"), EmptyDict)

\* C8: a page with only a __NEXT_DATA__ block whose payload parses as JSON is
\* extracted into a structure whose UserModule.users is non-empty and holds
\* the page's user record under that record's unique id.
C8_NextOnlyExtracts ==
    (pc = "done" /\ OnlyNextBlock) =>
        /\ IsDict(res)
        /\ LET users == Get(Get(Get(res, K("data"), PyNone),
                                K("UserModule"), EmptyDict), K("users"), PyNone)
           IN /\ IsDict(users)
              /\ users.items # <<>>
              /\ IsDict(PageUser) =>
                    Get(users, Get(PageUser, K("uniqueId"), PyStr(<<>>)), PyNone)
                        = PageUser

----------------------------------------------------------------------------
(* C9 *)

\* the result came from a __NEXT_DATA__ block
FromNext ==
    /\ inp.blocks.sigi_pat \in {Absent, Garbage}
    /\ inp.blocks.sigi_win \in {Absent, Garbage}
    /\ \/ inp.blocks.next_pat \notin {Absent, Garbage}
       \/ inp.blocks.next_win \notin {Absent, Garbage}

\* C9: the ItemModule reshaped from __NEXT_DATA__ is a mapping keyed by item
\* id whose values are the item records.
C9_ItemModuleKeyedById ==
    (pc = "done" /\ FromNext /\ IsDict(res)) =>
        LET im == Get(Get(res, K("data"), PyNone), K("ItemModule"), PyNone)
        IN /\ IsDict(im)
           /\ \A i \in 1..Len(im.items) :
                 /\ IsDict(im.items[i][2])
                 /\ Get(im.items[i][2], K("id"), PyNone) = im.items[i][1]

----------------------------------------------------------------------------
(* C10 *)

\* the one user record the field mapper is given
MappedRecord ==
    IF plugin = "bluesky" THEN ProfileData
    ELSE LET users == Get(Get(Get(TikExtractJson(Content1), K("data"), PyNone),
                              K("UserModule"), EmptyDict), K("users"), EmptyDict)
         IN users.items[1][2]

\* the field mapper ran on exactly one record, and nothing but it emitted
\* events of the types it emits
OneRecordMapped ==
    /\ pc = "done"
    /\ res.ok
    /\ GotContent
    /\ IF plugin = "bluesky"
       THEN /\ "BLUESKY_PROFILE_INFO" \in Types(res.ev)
            /\ ~FeedFetched
       ELSE /\ "TIKTOK_PROFILE_INFO" \in Types(res.ev)
            /\ Count(res.ev, "TIKTOK_PROFILE_INFO") = 1
            /\ "LINKED_URL" \notin Types(res.ev)

Has(field) == Truthy(Get(MappedRecord, K(field), PyNone))

One(type, present) == Count(res.ev, type) = (IF present THEN 1 ELSE 0)

\* the profile-stats events, and the values they carry
StatsEvents ==
    {i \in 1..Len(res.ev) :
        res.ev[i].type \in {"BLUESKY_PROFILE_INFO", "TIKTOK_PROFILE_INFO"}}

CarriesNull(e) ==
    \E j \in 1..Len(e.data.json.items) : IsNone(e.data.json.items[j][2])

\* C10: each field or field group present in the record yields exactly one
\* event, an absent one yields none, and no event carries a null placeholder.
C10_OneEventPerPresentField ==
    OneRecordMapped =>
        /\ IF plugin = "bluesky"
           THEN /\ One("PROFILE_PHOTO", Has("avatar"))
                /\ One("ACCOUNT_EXTERNAL_OWNER", Has("displayName"))
                /\ One("DESCRIPTION", Has("description"))
                /\ One("BLUESKY_PROFILE_INFO",
                       Has("followersCount") \/ Has("followsCount")
                           \/ Has("postsCount"))
           ELSE /\ One("PROFILE_PHOTO", Has("avatarThumb"))
                /\ One("ACCOUNT_EXTERNAL_OWNER", Has("nickname"))
                /\ One("DESCRIPTION", Has("signature"))
                /\ One("GEOINFO", Has("region"))
                /\ One("TIKTOK_PROFILE_INFO",
                       Has("followerCount") \/ Has("heartCount")
                           \/ Has("videoCount"))
        /\ \A i \in StatsEvents : ~CarriesNull(res.ev[i])

----------------------------------------------------------------------------
(* C5 *)

\* the normalisation the claim describes, written out position by position
NormOf(s) ==
    LET lo == [i \in 1..Len(s) |-> LowerChar(s[i])]
        ix == {i \in 1..Len(lo) : lo[i] \notin Whitespace}
        a == IF ix = {} THEN 1 ELSE CHOOSE i \in ix : \A j \in ix : i <= j
        b == IF ix = {} THEN 0 ELSE CHOOSE i \in ix : \A j \in ix : j <= i
        t == SubSeq(lo, a, b)
    IN IF t # <<>> /\ t[1] = "@" THEN SubSeq(t, 2, Len(t)) ELSE t

\* the handle grammar read as: a label part that starts and ends with a
\* lowercase alphanumeric and holds only alphanumerics, "." and "-", then a
\* ".", then two or more lowercase letters, and nothing else
InGrammar(n) ==
    \E d \in 2..(Len(n) - 2) :
        /\ n[d] = "."
        /\ \A i \in (d + 1)..Len(n) : n[i] \in Lowers
        /\ \A i \in 1..(d - 1) : n[i] \in Lowers \cup Digits \cup {".", "-"}
        /\ n[1] \in Lowers \cup Digits
        /\ n[d - 1] \in Lowers \cup Digits

\* C5: _valid_handle(s) is the normalisation of s (lowercased, trimmed, one
\* leading "@" removed) when that matches the handle grammar, and None
\* otherwise; a result that is not None is lowercase and has no leading "@".
C5_ValidHandle ==
    pc = "done" =>
        /\ res = (IF InGrammar(NormOf(inp)) THEN PyStr(NormOf(inp)) ELSE PyNone)
        /\ IsStr(res) =>
              /\ \A i \in 1..Len(res.s) : res.s[i] \notin Uppers \cup Whitespace
              /\ res.s[1] # "@"

\* an "@"-prefixed, mixed-case input was accepted in its normalised form
C5_Witness ==
    /\ pc = "done"
    /\ inp = <<"@", "A", ".", "a", "a">>
    /\ res = PyStr(<<"a", ".", "a", "a">>)

----------------------------------------------------------------------------
(* C11 *)

\* C11: setup or handleEvent on one instance leaves the options and the seen
\* set of every other instance of the class, and the class-level default
\* options, as they were before the call.
C11_Confined ==
    last.op # "none" =>
        /\ \A j \in Instances \ {last.inst} :
              /\ OptsOf(j) = last.opts_before
              /\ seen[j] = last.seen_before[j]
        /\ opts = last.opts_before

----------------------------------------------------------------------------
(* C12 *)

\* the order the claim gives: SIGI_STATE block, SIGI_STATE assignment,
\* __NEXT_DATA__ block, __NEXT_DATA__ assignment, generic application/json
ClaimedOrder == <<"sigi_pat", "sigi_win", "next_pat", "next_win", "appjson">>

\* the positions of the claimed order whose pattern matches and whose
\* payload parses
Usable ==
    {i \in 1..Len(ClaimedOrder) :
        /\ inp.blocks[ClaimedOrder[i]] # Absent
        /\ ~IsRaise(JsonLoads(inp.blocks[ClaimedOrder[i]]))}

FirstUsable == CHOOSE i \in Usable : \A j \in Usable : i <= j

\* C12: _extract_json reports failure (None) exactly when no strategy both
\* matches and parses; otherwise it returns the result of the first strategy,
\* in the claimed order, that matches and parses: the raw text is that
\* strategy's payload and the data is what the payload parses to (reshaped to
\* UserModule / ItemModule for the __NEXT_DATA__ strategies).
C12_FirstUsableStrategy ==
    pc = "done" =>
        /\ IsNone(res) <=> Usable = {}
        /\ Usable # {} =>
              LET name == ClaimedOrder[FirstUsable]
                  data == Get(res, K("data"), PyNone)
              IN /\ IsDict(res)
                 /\ Get(res, K("raw"), PyNone) = inp.blocks[name]
                 /\ IF name \in {"next_pat", "next_win"}
                    THEN /\ IsDict(Get(data, K("UserModule"), PyNone))
                         /\ IsDict(Get(data, K("ItemModule"), PyNone))
                    ELSE data = JsonLoads(inp.blocks[name])

----------------------------------------------------------------------------
(* C13 *)

\* the handle the last event stands for: the local part of an e-mail address,
\* the data string otherwise
EventHandle ==
    IF last.etype = "EMAILADDR" THEN SplitAtFirst(last.edata) ELSE last.edata

\* what the extractor made of the page the last call fetched
PageData ==
    LET c == Get(last.fetched[1], K("content"), PyNone)
        x == IF c.k = "html" THEN TikExtractJson(c) ELSE PyNone
    IN IF IsDict(x) THEN Get(x, K("data"), PyNone) ELSE PyNone

\* the users mapping of the page: UserModule.users, else ShareUser.users
PageUsers ==
    LET a == Get(Get(PageData, K("UserModule"), EmptyDict), K("users"), PyNone)
        b == Get(Get(PageData, K("ShareUser"), EmptyDict), K("users"), PyNone)
    IN IF IsDict(a) /\ Truthy(a) THEN a ELSE b

\* the mapping holds a record whose uniqueId is the handle, ignoring case
HasMatch ==
    /\ IsDict(PageUsers)
    /\ \E i \in 1..Len(PageUsers.items) :
          LET uid == Get(PageUsers.items[i][2], K("uniqueId"), PyNone)
          IN IsStr(uid) /\ Lower(uid.s) = Lower(EventHandle)

\* the last call fetched a page, extracted its data and went on to verify
ReachedVerification ==
    /\ plugin = "tiktok"
    /\ opts.verify_account
    /\ Len(last.run.req) = 1
    /\ IsDict(PageData)

\* C13: when a TikTok event reaches verification, SOCIAL_MEDIA and the
\* "account detected" INFO are emitted exactly when the page's users mapping
\* holds a record whose uniqueId equals the event's handle ignoring case, and
\* without such a record no SOCIAL_MEDIA, INFO or ERROR is emitted.
C13_VerifiedIffMatch ==
    ReachedVerification =>
        LET types == Types(last.run.ev)
        IN /\ ({"SOCIAL_MEDIA", "INFO"} \subseteq types) <=> HasMatch
           /\ ~HasMatch => types \cap {"SOCIAL_MEDIA", "INFO", "ERROR"} = {}

----------------------------------------------------------------------------
(* C14 *)

\* the TikTok handle grammar: 3 to 32 lowercase word characters, "." or "-"
TikInGrammar(n) ==
    /\ Len(n) >= UserMinLen
    /\ Len(n) <= UserMaxLen
    /\ \A i \in 1..Len(n) : n[i] \in Lowers \cup Digits \cup {"_", ".", "-"}

\* C14: every handle handleEvent hands to the fetch pipeline, and so every
\* actor of a request it makes, is lowercase, has no leading "@", no
\* surrounding whitespace, and matches the plug-in's handle grammar.
C14_FetchedHandleIsNormalized ==
    \A i \in 1..Len(last.run.req) :
        LET h == last.run.req[i].actor
        IN /\ h # <<>>
           /\ \A j \in 1..Len(h) : h[j] \notin Uppers
           /\ h[1] # "@"
           /\ h[1] \notin Whitespace
           /\ h[Len(h)] \notin Whitespace
           /\ IF plugin = "bluesky" THEN InGrammar(h) ELSE TikInGrammar(h)

====
